---------------------------- MODULE Spec2Model ----------------------------
(***************************************************************************)
(* A model of silenceremover.py: the silence mask builder                  *)
(* (get_edited_audio_matrix), the frame selection loop of cut_video, and   *)
(* the option parsing and file loop of main.                               *)
(*                                                                         *)
(* Numbers.  numpy's float64 values and decimal.Decimal values are         *)
(* modelled as exact rationals (records [nan, num, den] in lowest terms);  *)
(* the mean of an empty array is NaN, as numpy returns it.  Audio is a     *)
(* mono track (len(data.shape) = 1).                                       *)
(*                                                                         *)
(* Arrays are functions on 0 .. n-1 so that indices are Python's.          *)
(* MARGIN is a module-level global of the program (100); the model fixes   *)
(* it at Init to a value of Margins so that arrays stay small.             *)
(***************************************************************************)
EXTENDS Integers, Sequences, FiniteSets, TLC

\* ---------------------------------------------------------------- bounds
MaxLen == 5        \* longest audio track read, in samples
MaxConsec == 2     \* largest samplerate // WINDOW_FACTOR
MaxMargin == 2     \* largest MARGIN
MaxFrames == 3     \* largest frame count of a video
MaxOpts == 1       \* most options on the command line
MaxFiles == 2      \* most input files on the command line
MainLen == 1       \* longest track read by the file loop of main

\* ----------------------------------------------------- program constants
WINDOW_FACTOR == 5

OUTPUT_NOT_COMPATIBLE_EXIT_STATUS == 4
NOT_IMPLEMENTED_EXIT_STATUS == 5
NOT_VALID_FORMAT_EXIT_STATUS == 6
PATH_NOT_EXISTS_STATUS == 7
UNKNOWN_ERROR_STATUS == 100
TEMP_FILE_ALREADY_EXISTS_STATUS == 101
GENERIC_EXCEPTION_STATUS == 103

\* An Enum member and a plain int never compare equal in Python, so both
\* carry a tag.
ThresholdAlgo(v) == [enum |-> "ThresholdAlgo", value |-> v]
CompressionAlgo(v) == [enum |-> "CompressionAlgo", value |-> v]
PyInt(v) == [enum |-> "int", value |-> v]

SENSITIVE == ThresholdAlgo(1)
WEAK == ThresholdAlgo(2)
MODERATE == ThresholdAlgo(3)
STRONG == ThresholdAlgo(4)
ThresholdAlgoMembers == {SENSITIVE, WEAK, MODERATE, STRONG}

LIGHT == CompressionAlgo(1)
MID == CompressionAlgo(2)
HEAVY == CompressionAlgo(3)
CompressionAlgoMembers == {LIGHT, MID, HEAVY}

\* ------------------------------------------------------------ arithmetic
Min(a, b) == IF a < b THEN a ELSE b
Max(a, b) == IF a > b THEN a ELSE b
Abs(x) == IF x < 0 THEN -x ELSE x

RECURSIVE GCD(_, _)
GCD(a, b) == IF b = 0 THEN a ELSE GCD(b, a % b)

\* A finite number num/den in lowest terms, den > 0.
Rat(n, d) ==
    LET g == GCD(Abs(n), d)
    IN  [nan |-> FALSE, num |-> n \div g, den |-> d \div g]
NaN == [nan |-> TRUE, num |-> 0, den |-> 1]
FromInt(n) == Rat(n, 1)

FAdd(a, b) ==
    IF a.nan \/ b.nan THEN NaN
    ELSE Rat(a.num * b.den + b.num * a.den, a.den * b.den)
FSub(a, b) ==
    IF a.nan \/ b.nan THEN NaN
    ELSE Rat(a.num * b.den - b.num * a.den, a.den * b.den)
FMul(a, b) ==
    IF a.nan \/ b.nan THEN NaN ELSE Rat(a.num * b.num, a.den * b.den)
\* a / b for b > 0
FDiv(a, b) ==
    IF a.nan \/ b.nan THEN NaN ELSE Rat(a.num * b.den, a.den * b.num)
FAbs(a) == IF a.nan THEN NaN ELSE Rat(Abs(a.num), a.den)
\* Every comparison with NaN is false.
FLess(a, b) == ~a.nan /\ ~b.nan /\ a.num * b.den < b.num * a.den
FGeq(a, b) == ~a.nan /\ ~b.nan /\ a.num * b.den >= b.num * a.den
FFloor(a) == a.num \div a.den
FCeil(a) == -((-a.num) \div a.den)

\* ------------------------------------------------------------ numpy bits
Length(arr) == Cardinality(DOMAIN arr)

RECURSIVE SumRange(_, _, _)
SumRange(arr, lo, hi) ==
    IF lo > hi THEN 0
    ELSE IF lo = hi THEN arr[lo]
    ELSE LET mid == (lo + hi) \div 2
         IN  SumRange(arr, lo, mid) + SumRange(arr, mid + 1, hi)

\* np.mean(arr[keep]): NaN (with a warning, no exception) when nothing is kept
MeanWhere(arr, keep) ==
    LET sel == [i \in DOMAIN arr |-> IF i \in keep THEN arr[i] ELSE 0]
    IN  IF keep = {} THEN NaN
        ELSE Rat(SumRange(sel, 0, Length(arr) - 1), Cardinality(keep))

Mean(arr) == MeanWhere(arr, DOMAIN arr)

\* np.where(flags)[0]: the indices where flags holds, ascending
Where(flags) ==
    SelectSeq([k \in 1 .. Length(flags) |-> k - 1], LAMBDA i : flags[i])

\* Python's slice.indices: a negative bound counts from the end
NormIndex(k, n) == IF k < 0 THEN Max(k + n, 0) ELSE Min(k, n)

\* arr[start:stop] = False
SliceAssignFalse(arr, start, stop) ==
    LET n == Length(arr)
        lo == NormIndex(start, n)
        hi == NormIndex(stop, n)
    IN  [i \in DOMAIN arr |-> IF lo <= i /\ i < hi THEN FALSE ELSE arr[i]]

\* ------------------------------------------------ get_edited_audio_matrix
DataTmp(d) == [i \in DOMAIN d |-> Abs(d[i])]

BelowMean(dt) ==
    LET first_threshold == Mean(dt)
    IN  {i \in DOMAIN dt : FLess(FAbs(FromInt(dt[i])), first_threshold)}

\* The silence threshold of each method; no branch is taken for a method
\* that is no member of ThresholdAlgo, and silence_threshold stays unbound.
ThresholdBound(m) == m \in ThresholdAlgoMembers

SilenceThreshold(dt, m) ==
    IF m = SENSITIVE THEN
        FMul(MeanWhere(dt, BelowMean(dt)), FromInt(2))
    ELSE IF m = WEAK THEN
        FDiv(Mean(dt), FromInt(2))
    ELSE IF m = MODERATE THEN
        FDiv(FAdd(MeanWhere(dt, BelowMean(dt)), Mean(dt)), FromInt(2))
    ELSE
        Mean(dt)

ConsecFrames(sr) == sr \div WINDOW_FACTOR

SilentMask(dt, thr) ==
    [i \in DOMAIN dt |-> FLess(FAbs(FromInt(dt[i])), thr)]

ToCheck(dt, thr) ==
    LET mask == SilentMask(dt, thr)
    IN  Where([i \in DOMAIN dt |-> mask[i] = FALSE])

AllTrue(n) == [i \in 0 .. n - 1 |-> TRUE]

GapConfirmedGeq(ind, last, consec) == ind - last >= consec

GapConfirmed(ind, last, consec) == ind - last > consec

\* The body of the scan loop for one index of to_check.
MaskStep(fm, last, ind, consec, mg) ==
    IF GapConfirmed(ind, last, consec)
    THEN SliceAssignFalse(fm, last + mg, ind - mg)
    ELSE fm

\* last_ind when the scan loop reaches to_check[k]: 0 at first, then the
\* index before.
LastInd(tc, k) == IF k = 1 THEN 0 ELSE tc[k - 1]

\* The iterations of the scan loop that take their gap for silence.
ConfirmedSteps(tc, consec) ==
    {k \in 1 .. Len(tc) : GapConfirmed(tc[k], LastInd(tc, k), consec)}

\* The whole scan loop.  An iteration only ever clears entries, and whether
\* it does never depends on the mask, so an entry is kept exactly when no
\* confirmed iteration clears it.
ScanLoop(fm, tc, consec, mg) ==
    LET steps == ConfirmedSteps(tc, consec)
    IN  [i \in DOMAIN fm |->
            \A k \in steps :
                SliceAssignFalse(fm, LastInd(tc, k) + mg, tc[k] - mg)[i]]

\* The whole function: [raised, threshold, mask].
GetEditedAudioMatrix(d, sr, m, mg) ==
    LET dt == DataTmp(d)
        thr == SilenceThreshold(dt, m)
    IN  IF ~ThresholdBound(m)
        THEN [raised |-> TRUE, threshold |-> NaN, mask |-> AllTrue(Length(d))]
        ELSE [raised |-> FALSE, threshold |-> thr,
              mask |-> ScanLoop(AllTrue(Length(d)), ToCheck(dt, thr),
                                ConsecFrames(sr), mg)]

\* -------------------------------------------------------------- cut_video
\* decimal.Decimal(len(data)) / samplerate
Duration(n, sr) == FDiv(FromInt(n), FromInt(sr))

\* decimal.Decimal(frame_count) / duration
Framerate(fc, dur) == FDiv(FromInt(fc), dur)

\* samplerate / framerate, with the frame rate taken from the duration of the
\* track with n samples, of which k are kept
IncrementNewDuration(sr, fc, n, k) ==
    FDiv(FromInt(sr), Framerate(fc, Duration(k, sr)))

Increment(sr, fc, n, k) ==
    FDiv(FromInt(sr), Framerate(fc, Duration(n, sr)))

\* len(np.arange(0, stop, step)) = ceil(stop / step)
ArangeLen(stop, step) == FCeil(FDiv(FromInt(stop), step))

\* np.arange(0, stop, step)[i]
ArangeAt(i, step) == FMul(FromInt(i), step)

\* to_keep[int(index)] >= expected_frame; to_keep is a sequence from 1
GrabCondition(tk, index, expected) ==
    FGeq(FromInt(tk[FFloor(index) + 1]), expected)

\* ------------------------------------------------------------------- main
NoExit == 0 - 1

DigitChars == {"0", "1", "2", "3", "4", "5", "6", "7", "8", "9"}

\* str.isdigit
IsDigit(a) == a # <<>> /\ \A i \in 1 .. Len(a) : a[i] \in DigitChars

DigitValue(c) ==
    CASE c = "0" -> 0 [] c = "1" -> 1 [] c = "2" -> 2 [] c = "3" -> 3
      [] c = "4" -> 4 [] c = "5" -> 5 [] c = "6" -> 6 [] c = "7" -> 7
      [] c = "8" -> 8 [] c = "9" -> 9

\* int(a) of a string of digits
RECURSIVE IntOf(_)
IntOf(a) ==
    IF a = <<>> THEN 0
    ELSE 10 * IntOf(SubSeq(a, 1, Len(a) - 1)) + DigitValue(a[Len(a)])

\* cls.has_value(value)
HasValue(members, v) == \E mem \in members : mem.value = v

\* The -m / --method branch of the option loop.
ParseMethod(cur, a) ==
    IF IsDigit(a)
    THEN IF HasValue(ThresholdAlgoMembers, IntOf(a))
         THEN ThresholdAlgo(IntOf(a))
         ELSE PyInt(IntOf(a))
    ELSE cur

\* The -c / --compress branch of the option loop.
ParseCompress(cur, a) ==
    IF IsDigit(a)
    THEN IF HasValue(CompressionAlgoMembers, IntOf(a))
         THEN CompressionAlgo(IntOf(a))
         ELSE PyInt(IntOf(a))
    ELSE cur

ShortOpts == {"-h", "-o", "-c", "-m"}
LongOpts == {"--help", "--output", "--compress", "--method"}

\* What countOpts grows by for option o with argument a.
CountOptsStep(o, a) == 1 + (IF o \in ShortOpts /\ a = <<>> THEN 1 ELSE 0)

PyNone == [is_none |-> TRUE, text |-> <<>>]
PyStr(a) == [is_none |-> FALSE, text |-> a]
Truthy(v) == ~v.is_none /\ v.text # <<>>

\* get_wav: the exit status, or NoExit when ffmpeg succeeded
GetWavSwapped(ffmpeg_ok, wav_exists) ==
    IF ffmpeg_ok THEN NoExit
    ELSE IF wav_exists THEN UNKNOWN_ERROR_STATUS
    ELSE TEMP_FILE_ALREADY_EXISTS_STATUS

GetWav(ffmpeg_ok, wav_exists) ==
    IF ffmpeg_ok THEN NoExit
    ELSE IF wav_exists THEN TEMP_FILE_ALREADY_EXISTS_STATUS
    ELSE UNKNOWN_ERROR_STATUS

\* The merge of the temporary video and audio at the end of cut_video.
Merge(ffmpeg_ok, out_exists) ==
    IF ffmpeg_ok THEN NoExit
    ELSE IF out_exists THEN TEMP_FILE_ALREADY_EXISTS_STATUS
    ELSE UNKNOWN_ERROR_STATUS

FailureName(exists) == IF exists THEN "collision" ELSE "tool_failed"

\* What the environment answers while one file is processed: whether the
\* video opens, whether ffmpeg extracts the track and, if not, whether the
\* .wav is there, whether the writer opens, whether ffmpeg merges and, if
\* not, whether the output is there, whether the audio can be written.
Envs ==
    [opened : BOOLEAN, wav_ok : BOOLEAN, wav_exists : BOOLEAN,
     writer_opened : BOOLEAN, merge_ok : BOOLEAN, out_exists : BOOLEAN,
     write_ok : BOOLEAN]

\* The answers that matter for a path of the kind given; the others are
\* never asked for and are fixed.
EnvsFor(kind, exists) ==
    {env \in Envs :
        /\ env.wav_ok => ~env.wav_exists
        /\ env.merge_ok => ~env.out_exists
        /\ (~exists \/ kind \notin {"video", "audio"}) =>
              (env.wav_ok /\ ~env.wav_exists)
        /\ (~exists \/ kind # "video") =>
              (env.opened /\ env.writer_opened /\ env.merge_ok)
        /\ (~exists \/ kind \notin {"wav", "audio"}) => env.write_ok}

\* cut_video(..., method=m, compress=c) as main sees it: how it ends, the
\* exit status if it ends the program, whether get_edited_audio_matrix was
\* called and with which method.  An unbound silence_threshold is an
\* uncaught UnboundLocalError: the interpreter exits with status 1.
CutVideo(env, m, c) ==
    IF GetWav(env.wav_ok, env.wav_exists) # NoExit THEN
        [outcome |-> FailureName(env.wav_exists),
         exit |-> GetWav(env.wav_ok, env.wav_exists),
         mask_called |-> FALSE, mask_method |-> m]
    ELSE IF ~env.opened THEN
        [outcome |-> "stream_closed", exit |-> NoExit,
         mask_called |-> FALSE, mask_method |-> m]
    ELSE IF ~ThresholdBound(m) THEN
        [outcome |-> "raised", exit |-> 1,
         mask_called |-> TRUE, mask_method |-> m]
    ELSE IF ~env.writer_opened THEN
        [outcome |-> "stream_closed", exit |-> NoExit,
         mask_called |-> TRUE, mask_method |-> m]
    ELSE IF Merge(env.merge_ok, env.out_exists) # NoExit THEN
        [outcome |-> FailureName(env.out_exists),
         exit |-> Merge(env.merge_ok, env.out_exists),
         mask_called |-> TRUE, mask_method |-> m]
    ELSE
        [outcome |-> "ok", exit |-> NoExit,
         mask_called |-> TRUE, mask_method |-> m]

\* cut_audio(..., method=m) as main sees it.
CutAudio(is_wav, env, m) ==
    IF ~is_wav /\ GetWav(env.wav_ok, env.wav_exists) # NoExit THEN
        [outcome |-> FailureName(env.wav_exists),
         exit |-> GetWav(env.wav_ok, env.wav_exists),
         mask_called |-> FALSE, mask_method |-> MODERATE]
    ELSE IF ~env.write_ok THEN
        [outcome |-> "write_failed", exit |-> GENERIC_EXCEPTION_STATUS,
         mask_called |-> TRUE, mask_method |-> MODERATE]
    ELSE
        [outcome |-> "ok", exit |-> NoExit,
         mask_called |-> TRUE, mask_method |-> MODERATE]

\* One pass of the body of "for par in sys.argv[countOpts + 1:]" for a path
\* with the extension kind given.
FileKinds == {"video", "wav", "audio", "none", "other"}

ProcessPar(kind, exists, env, m, c) ==
    IF ~exists THEN
        [outcome |-> "missing", exit |-> PATH_NOT_EXISTS_STATUS,
         mask_called |-> FALSE, mask_method |-> m]
    ELSE IF kind = "video" THEN CutVideo(env, m, c)
    ELSE IF kind \in {"wav", "audio"} THEN CutAudio(kind = "wav", env, m)
    ELSE IF kind = "none" THEN
        [outcome |-> "folder", exit |-> NOT_IMPLEMENTED_EXIT_STATUS,
         mask_called |-> FALSE, mask_method |-> m]
    ELSE
        [outcome |-> "bad_format", exit |-> NOT_VALID_FORMAT_EXIT_STATUS,
         mask_called |-> FALSE, mask_method |-> m]

\* ----------------------------------------------------------- input sets
Samples == {-1, 0, 2}
DatasUpTo(len) == UNION {[0 .. n - 1 -> Samples] : n \in 1 .. len}
Datas == DatasUpTo(MaxLen)
SampleRates ==
    {WINDOW_FACTOR * c + r : c \in 0 .. MaxConsec, r \in {0, WINDOW_FACTOR - 1}}
        \ {0}
Margins == 0 .. MaxMargin
FrameCounts == 1 .. MaxFrames
Args == {<<>>, <<"3">>, <<"7">>, <<"x">>, <<"0", "4">>}

\* An option as getopt returns it: its name o, its argument a, and the
\* number of words of sys.argv it took ("-m3" and "--method=3" take one,
\* "-m 3" and "--method 3" take two).
Options ==
    {op \in [o : ShortOpts \cup LongOpts, a : Args, words : {1, 2}] :
        /\ op.o \in {"-h", "--help"} => (op.a = <<>> /\ op.words = 1)
        /\ op.o \in {"-o", "--output"} => op.a \in {<<>>, <<"x">>}
        /\ (op.o \in ShortOpts \ {"-h"} /\ op.words = 1) => op.a # <<>>}

\* ----------------------------------------------------------------- state
VARIABLES
    pc,                 \* where the program is
    margin,             \* MARGIN
    \* get_edited_audio_matrix
    data,               \* the samples read
    samplerate,
    mask_method,        \* the method get_edited_audio_matrix was given
    data_tmp,
    silence_threshold,
    to_check,
    final_mask,
    last_ind,
    pos,                \* position of the scan loop in to_check, from 1
    \* cut_video
    frame_count,
    to_keep,
    increment,
    expected_frame,
    frame_no,           \* position of the frame loop in np.arange(...), from 0
    grabs,              \* calls of video.grab(): the cursor into the source
    written,            \* calls of out.write(frame)
    \* main
    method,
    compress,
    output,
    countOpts,
    nwords,             \* words of sys.argv the options parsed so far took
    nopts,              \* options parsed so far
    rest_words,         \* option words still ahead in sys.argv[countOpts+1:]
    rest_files,         \* input files still ahead in sys.argv[countOpts+1:]
    last_outcome,       \* how the last pass of the file loop ended
    mask_called,        \* whether that pass called get_edited_audio_matrix
    exit_status

maskVars == <<data, samplerate, mask_method, data_tmp, silence_threshold,
              to_check, final_mask, last_ind, pos>>
videoVars == <<frame_count, to_keep, increment, expected_frame, frame_no,
               grabs, written>>
mainVars == <<method, compress, output, countOpts, nwords, nopts, rest_words,
              rest_files, last_outcome, mask_called, exit_status>>
vars == <<pc, margin, maskVars, videoVars, mainVars>>

InitMask ==
    /\ data = <<>>
    /\ samplerate = 0
    /\ mask_method = WEAK
    /\ data_tmp = <<>>
    /\ silence_threshold = NaN
    /\ to_check = <<>>
    /\ final_mask = <<>>
    /\ last_ind = 0
    /\ pos = 1

InitVideo ==
    /\ frame_count = 0
    /\ to_keep = <<>>
    /\ increment = NaN
    /\ expected_frame = FromInt(0)
    /\ frame_no = 0
    /\ grabs = 0
    /\ written = 0

\* main, lines 288-291
InitMain ==
    /\ output = PyNone
    /\ method = ThresholdAlgo(2)
    /\ compress = CompressionAlgo(2)
    /\ countOpts = 0
    /\ nwords = 0
    /\ nopts = 0
    /\ rest_words = 0
    /\ rest_files = 0
    /\ last_outcome = "none"
    /\ mask_called = FALSE
    /\ exit_status = NoExit

Init ==
    /\ pc = "idle"
    /\ margin \in Margins
    /\ InitMask /\ InitVideo /\ InitMain

\* ------------------------------------- get_edited_audio_matrix, by steps
\* get_edited_audio_matrix(d, sr, m), up to the start of the scan loop.
Call(d, sr, m) ==
    /\ pc = "idle"
    /\ data' = d
    /\ samplerate' = sr
    /\ mask_method' = m
    /\ data_tmp' = DataTmp(d)
    /\ silence_threshold' = SilenceThreshold(DataTmp(d), m)
    /\ to_check' = ToCheck(DataTmp(d), SilenceThreshold(DataTmp(d), m))
    /\ final_mask' = AllTrue(Length(d))
    /\ last_ind' = 0
    /\ pos' = 1
    /\ pc' = "scan"
    /\ UNCHANGED <<margin, videoVars, mainVars>>

CallAny ==
    /\ pc = "idle"
    /\ \E d \in Datas, sr \in SampleRates, m \in ThresholdAlgoMembers :
            Call(d, sr, m)

\* One iteration of "for ind in to_check".
ScanStep ==
    /\ pc = "scan"
    /\ pos <= Len(to_check)
    /\ final_mask' = MaskStep(final_mask, last_ind, to_check[pos],
                              ConsecFrames(samplerate), margin)
    /\ last_ind' = to_check[pos]
    /\ pos' = pos + 1
    /\ UNCHANGED <<pc, margin, data, samplerate, mask_method, data_tmp,
                   silence_threshold, to_check, videoVars, mainVars>>

\* return final_mask
Return ==
    /\ pc = "scan"
    /\ pos > Len(to_check)
    /\ pc' = "done"
    /\ UNCHANGED <<margin, maskVars, videoVars, mainVars>>

Next == CallAny \/ ScanStep \/ Return

Spec == Init /\ [][Next]_vars

\* ------------------------------------------------ cut_video, lines 87-123
\* From reading the track to the head of the frame loop, for a video of fc
\* frames whose track gave the mask fm at sample rate sr.
VideoStart(fm, sr, fc) ==
    /\ samplerate' = sr
    /\ final_mask' = fm
    /\ frame_count' = fc
    /\ to_keep' = Where(fm)
    /\ increment' = Increment(sr, fc, Length(fm), Len(Where(fm)))
    /\ expected_frame' = FromInt(0)
    /\ frame_no' = 0
    /\ grabs' = 0
    /\ written' = 0
    /\ pc' = "frames"
    /\ UNCHANGED <<margin, data, mask_method, data_tmp, silence_threshold,
                   to_check, last_ind, pos, mainVars>>

VideoStartAny ==
    /\ pc = "idle"
    /\ \E d \in Datas, sr \in SampleRates, m \in ThresholdAlgoMembers :
          LET fm == GetEditedAudioMatrix(d, sr, m, margin).mask
          IN  \E fc \in FrameCounts : VideoStart(fm, sr, fc)

InFrameLoop ==
    /\ pc = "frames"
    /\ frame_no < ArangeLen(Len(to_keep), increment)

\* video.grab(); expected_frame += increment
Grab ==
    /\ InFrameLoop
    /\ GrabCondition(to_keep, ArangeAt(frame_no, increment), expected_frame)
    /\ grabs' = grabs + 1
    /\ expected_frame' = FAdd(expected_frame, increment)
    /\ UNCHANGED <<pc, margin, maskVars, frame_count, to_keep, increment,
                   frame_no, written, mainVars>>

\* video.retrieve(); out.write(frame); on to the next index
RetrieveWrite ==
    /\ InFrameLoop
    /\ ~GrabCondition(to_keep, ArangeAt(frame_no, increment), expected_frame)
    /\ written' = written + 1
    /\ frame_no' = frame_no + 1
    /\ UNCHANGED <<pc, margin, maskVars, frame_count, to_keep, increment,
                   expected_frame, grabs, mainVars>>

\* The frame loop is over.
LoopExit ==
    /\ pc = "frames"
    /\ frame_no >= ArangeLen(Len(to_keep), increment)
    /\ pc' = "done"
    /\ UNCHANGED <<margin, maskVars, videoVars, mainVars>>

NextVideo == VideoStartAny \/ Grab \/ RetrieveWrite \/ LoopExit

SpecVideo == Init /\ [][NextVideo]_vars

\* ------------------------------------------------- the worked example
\* 3000 samples at 1000 Hz, silent on [0,500) and [1500,2000), MARGIN 10;
\* the clip is taken to hold 90 frames (30 a second).
ExampleData ==
    [i \in 0 .. 2999 |->
        IF i < 500 \/ (1500 <= i /\ i < 2000) THEN 0 ELSE 1]

\* The methods whose threshold splits the example as a threshold of 1/2 does.
ExampleMethods ==
    {m \in ThresholdAlgoMembers :
        ToCheck(DataTmp(ExampleData), SilenceThreshold(DataTmp(ExampleData), m))
            = ToCheck(DataTmp(ExampleData), Rat(1, 2))}

InitExample ==
    /\ pc = "idle"
    /\ margin = 10
    /\ InitMask /\ InitVideo /\ InitMain

VideoStartExample ==
    /\ pc = "idle"
    /\ \E m \in ExampleMethods :
          VideoStart(GetEditedAudioMatrix(ExampleData, 1000, m, margin).mask,
                     1000, 90)

NextExample == VideoStartExample \/ Grab \/ RetrieveWrite \/ LoopExit

SpecExample == InitExample /\ [][NextExample]_vars

\* ------------------------------------------------------------------- main
\* One pass of "for o, a in opts".
ParseOpt ==
    /\ pc = "idle"
    /\ nopts < MaxOpts
    /\ \E op \in Options :
          /\ nopts' = nopts + 1
          /\ nwords' = nwords + op.words
          /\ IF op.o \in {"-h", "--help"}
             THEN /\ pc' = "exited"
                  /\ exit_status' = 0
                  /\ UNCHANGED <<output, compress, method, countOpts>>
             ELSE /\ output' = IF op.o \in {"-o", "--output"}
                               THEN PyStr(op.a) ELSE output
                  /\ compress' = IF op.o \in {"-c", "--compress"}
                                 THEN ParseCompress(compress, op.a)
                                 ELSE compress
                  /\ method' = IF op.o \in {"-m", "--method"}
                               THEN ParseMethod(method, op.a) ELSE method
                  /\ countOpts' = countOpts + CountOptsStep(op.o, op.a)
                  /\ UNCHANGED <<pc, exit_status>>
    /\ UNCHANGED <<margin, maskVars, videoVars, rest_words, rest_files,
                   last_outcome, mask_called>>

\* The options are parsed; lines 317-320, for a command line with nfiles
\* input files after the options.
EndOpts ==
    /\ pc = "idle"
    /\ \E nfiles \in 0 .. MaxFiles :
          /\ rest_words' = nwords - countOpts
          /\ rest_files' = nfiles
          /\ IF (nwords - countOpts) + nfiles > 1 /\ Truthy(output)
             THEN /\ pc' = "exited"
                  /\ exit_status' = OUTPUT_NOT_COMPATIBLE_EXIT_STATUS
             ELSE /\ pc' = "files"
                  /\ UNCHANGED exit_status
    /\ UNCHANGED <<margin, maskVars, videoVars, method, compress, output,
                   countOpts, nwords, nopts, last_outcome, mask_called>>

\* One pass of "for par in sys.argv[countOpts + 1:]": the words of options
\* that countOpts did not count come first and have no extension, then the
\* input files.  The track read is d.
ProcessPath ==
    /\ pc = "files"
    /\ rest_words + rest_files > 0
    /\ \E kind \in (IF rest_words > 0 THEN {"none"} ELSE FileKinds),
          exists \in BOOLEAN :
        \E env \in EnvsFor(kind, exists) :
          LET r == ProcessPar(kind, exists, env, method, compress)
          IN  /\ last_outcome' = r.outcome
              /\ mask_called' = r.mask_called
              /\ exit_status' = r.exit
              /\ pc' = IF r.exit = NoExit THEN "files" ELSE "exited"
              /\ IF r.mask_called
                 THEN \E d \in DatasUpTo(MainLen) :
                        /\ data' = d
                        /\ data_tmp' = DataTmp(d)
                        /\ mask_method' = r.mask_method
                        /\ silence_threshold' =
                              IF ThresholdBound(r.mask_method)
                              THEN SilenceThreshold(DataTmp(d), r.mask_method)
                              ELSE NaN
                 ELSE UNCHANGED <<data, data_tmp, mask_method,
                                  silence_threshold>>
    /\ rest_words' = IF rest_words > 0 THEN rest_words - 1 ELSE rest_words
    /\ rest_files' = IF rest_words > 0 THEN rest_files ELSE rest_files - 1
    /\ UNCHANGED <<margin, samplerate, to_check, final_mask, last_ind, pos,
                   videoVars, method, compress, output, countOpts, nwords,
                   nopts>>

\* The file loop is over: main returns.
Finish ==
    /\ pc = "files"
    /\ rest_words + rest_files = 0
    /\ pc' = "done"
    /\ UNCHANGED <<margin, maskVars, videoVars, mainVars>>

NextMain == ParseOpt \/ EndOpts \/ ProcessPath \/ Finish

\* The file loop never reads MARGIN.
InitSpecMain ==
    /\ pc = "idle"
    /\ margin = 0
    /\ InitMask /\ InitVideo /\ InitMain

SpecMain == InitSpecMain /\ [][NextMain]_vars

\* ------------------------------------------------------------- claims
\* The loop run step by step ends with the mask ScanLoop computes.
ScanLoopAgrees ==
    pc = "done" =>
        final_mask = GetEditedAudioMatrix(data, samplerate, mask_method,
                                          margin).mask

IsBelow(i) == FLess(FromInt(data_tmp[i]), silence_threshold)
IsLoud(i) == FGeq(FromInt(data_tmp[i]), silence_threshold)

\* Every sample is loud but one run s .. e of below-threshold samples,
\* shorter than samplerate // WINDOW_FACTOR, with loud samples on both sides.
SingleShortRun ==
    \E s \in DOMAIN data_tmp : \E e \in DOMAIN data_tmp :
        /\ 1 <= s /\ s <= e /\ e <= Length(data_tmp) - 2
        /\ e - s + 1 < samplerate \div WINDOW_FACTOR
        /\ \A i \in DOMAIN data_tmp :
              IF s <= i /\ i <= e THEN IsBelow(i) ELSE IsLoud(i)

\* C1: when every sample is loud except one below-threshold run shorter than
\* samplerate // WINDOW_FACTOR with loud samples on both sides, the mask
\* returned is true at every index.
C1_ShortRunKept ==
    (pc = "done" /\ SingleShortRun) =>
        \A i \in DOMAIN final_mask : final_mask[i]

C1_Witness == pc = "done" /\ SingleShortRun

\* A maximal run [s, e) of below-threshold samples.
MaximalRun(s, e) ==
    /\ s < e
    /\ \A i \in s .. e - 1 : IsBelow(i)
    /\ s = 0 \/ ~IsBelow(s - 1)
    /\ e = Length(data_tmp) \/ ~IsBelow(e)

\* The scan reaches the loud index e with last_ind at the loud index before
\* the run (0 when the run starts the track) and takes the gap for silence.
RunConfirmed(s, e) ==
    /\ e < Length(data_tmp)
    /\ e - (IF s = 0 THEN 0 ELSE s - 1) > samplerate \div WINDOW_FACTOR

\* C2: for every removed silent run [start, end) with
\* end - start > 2*margin, the mask stays true on [start, start+margin) and
\* on [end-margin, end).
C2_MarginKept ==
    pc = "done" =>
        \A s \in 0 .. Length(data_tmp) : \A e \in 0 .. Length(data_tmp) :
            (MaximalRun(s, e) /\ RunConfirmed(s, e) /\ e - s > 2 * margin) =>
                /\ \A i \in s .. s + margin - 1 : final_mask[i]
                /\ \A i \in e - margin .. e - 1 : final_mask[i]

\* C3: in the worked example the mask is false exactly on [10,490) and
\* [1510,1990).
C3_ExampleMask ==
    pc \in {"frames", "done"} =>
        \A i \in DOMAIN final_mask :
            final_mask[i] =
                ~((10 <= i /\ i < 490) \/ (1510 <= i /\ i < 1990))

IsConstant(arr) == \A i \in DOMAIN arr : \A j \in DOMAIN arr : arr[i] = arr[j]

\* C6: on a constant envelope every method yields a defined threshold, and
\* on an all-zero envelope the threshold is 0.
C6_ConstantEnvelopeThreshold ==
    (pc \in {"scan", "done"} /\ IsConstant(data_tmp)) =>
        /\ ~silence_threshold.nan
        /\ (\A i \in DOMAIN data_tmp : data_tmp[i] = 0) =>
              silence_threshold = FromInt(0)

\* C9: a scan step whose gap is confirmed but whose interval
\* [last_ind + margin, ind - margin) is empty or inverted changes no mask
\* entry.
C9_EmptyIntervalNoOp ==
    [][(/\ pc = "scan"
        /\ pos <= Len(to_check)
        /\ to_check[pos] - last_ind > samplerate \div WINDOW_FACTOR
        /\ last_ind + margin >= to_check[pos] - margin)
            => final_mask' = final_mask]_vars


\* The frame rate and the number of samples kept, as cut_video has them.
OriginalFrameRate ==
    Framerate(frame_count, Duration(Length(final_mask), samplerate))
Kept == Len(to_keep)

\* C4: the frames written and the samples kept last the same time to within
\* one frame: abs(written / framerate - K / samplerate) < 1 / framerate.
C4_SyncWithinOneFrame ==
    pc = "done" =>
        FLess(FAbs(FSub(FDiv(FromInt(written), OriginalFrameRate),
                        FDiv(FromInt(Kept), FromInt(samplerate)))),
              FDiv(FromInt(1), OriginalFrameRate))

C4_Witness ==
    /\ pc = "done"
    /\ written > 0
    /\ written < frame_count
    /\ Kept < Length(final_mask)
    /\ FLess(FDiv(FromInt(Kept), FromInt(samplerate)),
             FDiv(FromInt(written), OriginalFrameRate))

\* C5: the cursor into the source video only ever advances, and the frame
\* loop calls video.grab() at most frame_count times.
C5_CursorBound ==
    /\ [](pc \in {"frames", "done"} => grabs <= frame_count)
    /\ [][grabs' >= grabs]_vars

C5_Witness ==
    /\ pc = "done"
    /\ grabs = frame_count
    /\ written >= 2
    /\ Kept < Length(final_mask)

FileFailures == {"stream_closed", "tool_failed", "collision"}

C8_OutOfRangeFallsBack ==
    pc = "files" =>
        /\ method \in ThresholdAlgoMembers
        /\ compress \in CompressionAlgoMembers

\* C10: the threshold get_edited_audio_matrix used for the file just
\* processed is the one of the method main passed.
C10_StrategyHonoured ==
    (mask_called /\ method \in ThresholdAlgoMembers) =>
        /\ mask_method = method
        /\ silence_threshold = SilenceThreshold(data_tmp, method)

==========================================================================
